---- MODULE Spec2Model ----
(***************************************************************************)
(* Login-anomaly pipeline: the ingestion endpoint (login.py) and the       *)
(* offline feature extraction and flagging (session.py).                   *)
(*                                                                         *)
(* Numbers.  Timestamps are whole seconds since the epoch.  Quantities     *)
(* that are floating-point fractions in the program (fail_ratio,           *)
(* contamination, the quantile threshold) are kept as exact fractions      *)
(* [num, den] with den > 0 and compared by cross-multiplication.  Anomaly  *)
(* scores are integers standing for the reals the forest returns; only     *)
(* their order and the linear interpolation between them matter.           *)
(* hour_sin and hour_cos are pure functions of the hour column and are     *)
(* represented by it.                                                      *)
(***************************************************************************)
EXTENDS Integers, Sequences, FiniteSets, TLC

VARIABLES
    df,                       \* the caller's batch: rows in arrival order
    out,                      \* add_features' working frame, then its result
    last_success,             \* add_features' per-user cursor (a dict)
    secs_since_last_success,  \* add_features' list, one entry per row visited
    pc,                       \* position in the pipeline
    contamination,            \* detect_anomalies' argument of the last call
    df_out,                   \* detect_anomalies' result
    log,                      \* login.py: the rows of LOG_FILE after the header
    request,                  \* login.py: the request being handled, if any
    response                  \* login.py: the response to the last request

vars == <<df, out, last_success, secs_since_last_success, pc, contamination,
          df_out, log, request, response>>

sessionVars == <<df, out, last_success, secs_since_last_success, pc,
                 contamination, df_out>>
loginVars == <<log, request, response>>

----------------------------------------------------------------------------
(* Generic helpers *)

Indices(s) == 1..Len(s)

\* r extended with the fields of e (a DataFrame row gaining columns)
WithCols(r, e) ==
    [c \in (DOMAIN r) \cup (DOMAIN e) |-> IF c \in DOMAIN e THEN e[c] ELSE r[c]]

RECURSIVE Flatten(_)
Flatten(ss) == IF ss = <<>> THEN <<>> ELSE Head(ss) \o Flatten(Tail(ss))

\* floor division, as Python's // on integers
FloorDiv(a, b) == a \div b

Frac(n, d) == [num |-> n, den |-> d]

----------------------------------------------------------------------------
(* session.py: add_features *)

\* variant: the timestamp itself used as the window key
FloorMinute_NoFloor(ts) == ts

\* ts.dt.floor("min")
FloorMinute(ts) == FloorDiv(ts, 60) * 60

\* ts.dt.hour
HourOf(ts) == FloorDiv(ts, 3600) % 24

\* a row's key under groupby([cols[1], cols[2]])
KeyOf(r, cols) == <<r[cols[1]], r[cols[2]]>>

\* the rows of one group of a groupby
GroupRows(rows, cols, key) == { k \in Indices(rows) : KeyOf(rows[k], cols) = key }

\* the grouping columns of line 72
UserMinute == <<"user", "minute">>

KeyLess(a, b) == a[1] < b[1] \/ (a[1] = b[1] /\ a[2] < b[2])

\* the keys of a groupby come out sorted
RECURSIVE SortKeys(_)
SortKeys(K) ==
    IF K = {} THEN <<>>
    ELSE LET m == CHOOSE a \in K : \A b \in K \ {a} : KeyLess(a, b)
         IN  <<m>> \o SortKeys(K \ {m})

\* Series.nunique over a group
NUnique(rows, idx, col) == Cardinality({ rows[k][col] : k \in idx })

\* number of rows of a group with success = 1 (the sum behind s.mean())
Successes(rows, idx) == Cardinality({ k \in idx : rows[k].success = 1 })

\* lambda s: 1 - s.mean()
FailRatio(rows, idx) == Frac(Cardinality(idx) - Successes(rows, idx), Cardinality(idx))

\* out.groupby(["user", "minute"]).agg(...).reset_index()
MinuteAgg(rows) ==
    LET keys == SortKeys({ KeyOf(rows[k], UserMinute) : k \in Indices(rows) })
    IN  [g \in Indices(keys) |->
            LET idx == GroupRows(rows, UserMinute, keys[g])
            IN  [user           |-> keys[g][1],
                 minute         |-> keys[g][2],
                 attempts       |-> Cardinality(idx),
                 fail_ratio     |-> FailRatio(rows, idx),
                 uniq_ips       |-> NUnique(rows, idx, "ip"),
                 uniq_devices   |-> NUnique(rows, idx, "device"),
                 uniq_countries |-> NUnique(rows, idx, "country")]]

\* variant: the aggregates joined on the user alone
MergeOn_UserOnly(l, r) == l.user = r.user

\* the join condition of merge(on=["user", "minute"])
MergeOn(l, r) == l.user = r.user /\ l.minute = r.minute

\* the rows of `right` matching a left row, in right's order
RECURSIVE Matches(_, _)
Matches(l, right) ==
    IF right = <<>> THEN <<>>
    ELSE (IF MergeOn(l, Head(right)) THEN <<WithCols(l, Head(right))>> ELSE <<>>)
         \o Matches(l, Tail(right))

NaNAgg ==
    [attempts |-> 0, fail_ratio |-> Frac(0, 1), uniq_ips |-> 0,
     uniq_devices |-> 0, uniq_countries |-> 0]

\* left.merge(right, on=[...], how="left"): left order kept, one output row
\* per matching right row, an unmatched left row kept with missing values
\* (which the final fillna(0) turns into 0)
MergeLeft(left, right) ==
    Flatten([k \in Indices(left) |->
               LET m == Matches(left[k], right)
               IN  IF m = <<>> THEN <<WithCols(left[k], NaNAgg)>> ELSE m])

\* lines 62-86: copy, minute and hour columns, window aggregates, ts_sec
WithWindowCols(batch) ==
    LET timed == [k \in Indices(batch) |->
                    WithCols(batch[k], [minute |-> FloorMinute(batch[k].ts),
                                        hour   |-> HourOf(batch[k].ts)])]
        merged == MergeLeft(timed, MinuteAgg(timed))
    IN  [k \in Indices(merged) |-> WithCols(merged[k], [ts_sec |-> merged[k].ts])]

AddFeaturesBegin ==
    /\ pc = "start"
    /\ out' = WithWindowCols(df)
    /\ last_success' = <<>>
    /\ secs_since_last_success' = <<>>
    /\ pc' = "loop"
    /\ UNCHANGED <<df, contamination, df_out, loginVars>>

\* last_success.get(u, None), then 0 if prev is None else t - prev
SecsSince(cursor, u, t) == IF u \in DOMAIN cursor THEN t - cursor[u] ELSE 0

\* variant: the cursor moved by every event, failed ones included
CursorAfter_AnyOutcome(cursor, row) == (row.user :> row.ts_sec) @@ cursor

\* if row["success"] == 1: last_success[u] = t
CursorAfter(cursor, row) ==
    IF row.success = 1 THEN (row.user :> row.ts_sec) @@ cursor ELSE cursor

\* lines 88-94: one iteration of `for _, row in out.iterrows()`
IterRow ==
    /\ pc = "loop"
    /\ Len(secs_since_last_success) < Len(out)
    /\ LET row == out[Len(secs_since_last_success) + 1]
       IN  /\ secs_since_last_success' =
                  Append(secs_since_last_success,
                         SecsSince(last_success, row.user, row.ts_sec))
           /\ last_success' = CursorAfter(last_success, row)
    /\ UNCHANGED <<df, out, pc, contamination, df_out, loginVars>>

\* the grouping columns of lines 98 and 99
UserCountry == <<"user", "country">>

UserDevice == <<"user", "device">>

\* out.groupby([...]).size(): a Series indexed by the group keys
GroupSize(rows, cols) ==
    [key \in { KeyOf(rows[k], cols) : k \in Indices(rows) } |->
        Cardinality(GroupRows(rows, cols, key))]

\* out.join(series, on=[...]) followed by fillna(0): the count of the row's
\* key, 0 when the key is not in the index
JoinCount(series, key) == IF key \in DOMAIN series THEN series[key] ELSE 0

\* the threshold of lines 102-103
RareBelow == 3

\* variant: a count equal to the threshold still flagged
RareFlag_Inclusive(count) == IF count <= RareBelow THEN 1 ELSE 0

\* (count < 3).astype(int)
RareFlag(count) == IF count < RareBelow THEN 1 ELSE 0

\* lines 95-113: the secs column, rarity counts and flags, fillna(0)
WithRarityCols(rows, secs) ==
    LET uc == GroupSize(rows, UserCountry)
        ud == GroupSize(rows, UserDevice)
    IN  [k \in Indices(rows) |->
            LET ucc == JoinCount(uc, KeyOf(rows[k], UserCountry))
                udc == JoinCount(ud, KeyOf(rows[k], UserDevice))
            IN  WithCols(rows[k],
                    [secs_since_last_success |-> secs[k],
                     uc_count |-> ucc,
                     ud_count |-> udc,
                     rare_country_for_user |-> RareFlag(ucc),
                     rare_device_for_user  |-> RareFlag(udc)])]

AddFeaturesEnd ==
    /\ pc = "loop"
    /\ Len(secs_since_last_success) = Len(out)
    /\ out' = WithRarityCols(out, secs_since_last_success)
    /\ pc' = "featured"
    /\ UNCHANGED <<df, last_success, secs_since_last_success, contamination,
                   df_out, loginVars>>

----------------------------------------------------------------------------
(* session.py: detect_anomalies *)

FracGreater(a, b) == a.num * b.den > b.num * a.den

\* insertion into an ascending list
RECURSIVE InsertSorted(_, _)
InsertSorted(x, s) ==
    IF s = <<>> THEN <<x>>
    ELSE IF x <= Head(s) THEN <<x>> \o s
    ELSE <<Head(s)>> \o InsertSorted(x, Tail(s))

\* the scores in ascending order, as np.quantile arranges them
RECURSIVE SortScores(_)
SortScores(s) == IF s = <<>> THEN <<>> ELSE InsertSorted(Head(s), SortScores(Tail(s)))

\* np.quantile(scores, q), q a fraction in [0, 1], linear interpolation:
\* the virtual index q * (n - 1) falls between two neighbours of the sorted
\* scores and the result is interpolated between them
Quantile(scores, q) ==
    LET n      == Len(scores)
        sorted == SortScores(scores)
        virt   == q.num * (n - 1)
        below  == FloorDiv(virt, q.den)
        gamma  == virt % q.den
        above  == IF below + 1 <= n - 1 THEN below + 1 ELSE n - 1
    IN  Frac(sorted[below + 1] * q.den
               + gamma * (sorted[above + 1] - sorted[below + 1]),
             q.den)

\* variant: the quantile taken at the contamination itself
OneMinus_Forgotten(c) == c

\* 1 - contamination
OneMinus(c) == Frac(c.den - c.num, c.den)

\* variant: a score equal to the threshold not flagged
MlFlag_Strict(score, thr) == IF score * thr.den > thr.num THEN 1 ELSE 0

\* (scores >= thr).astype(int), one row
MlFlag(score, thr) == IF score * thr.den >= thr.num THEN 1 ELSE 0

\* the constants of line 142: fail_ratio > 0.8 and uniq_ips >= 5
RuleFailRatio == Frac(4, 5)

RuleMinIps == 5

\* variant: a failure fraction of exactly 0.8 flagged too
RuleFlag_AtLeast(row) ==
    IF ~FracGreater(RuleFailRatio, row.fail_ratio) /\ row.uniq_ips >= RuleMinIps
    THEN 1 ELSE 0

\* ((fail_ratio > 0.8) & (uniq_ips >= 5)).astype(int), one row
RuleFlag(row) ==
    IF FracGreater(row.fail_ratio, RuleFailRatio) /\ row.uniq_ips >= RuleMinIps
    THEN 1 ELSE 0

\* (ml_flag | rule_flag).astype(int), one row
FinalFlag(ml, rule) == IF ml = 1 \/ rule = 1 THEN 1 ELSE 0

\* variant: every contamination strictly between 0 and 1 taken
FitAccepts_OpenUnit(rows, c) == Len(rows) >= 1 /\ c.num > 0 /\ c.num < c.den

\* IsolationForest(contamination=c).fit(X): the estimator takes a
\* contamination in (0, 0.5] and at least one sample, and raises otherwise
FitAccepts(rows, c) == Len(rows) >= 1 /\ c.num > 0 /\ 2 * c.num <= c.den

\* lines 134-146: the score column, the threshold and the three flags
Flagged(rows, scores, c) ==
    LET thr == Quantile(scores, OneMinus(c))
    IN  [k \in Indices(rows) |->
            LET ml   == MlFlag(scores[k], thr)
                rule == RuleFlag(rows[k])
            IN  WithCols(rows[k],
                    [anomaly_score |-> scores[k],
                     ml_flag       |-> ml,
                     rule_flag     |-> rule,
                     final_flag    |-> FinalFlag(ml, rule)])]

\* lines 126-146; `scores` is what -iso.score_samples(X) returns
DetectAnomalies(c, scores) ==
    /\ pc = "featured"
    /\ Len(scores) = Len(out)
    /\ contamination' = c
    /\ IF FitAccepts(out, c)
       THEN /\ df_out' = Flagged(out, scores, c)
            /\ pc' = "done"
       ELSE /\ df_out' = df_out
            /\ pc' = "raised"
    /\ UNCHANGED <<df, out, last_success, secs_since_last_success, loginVars>>

\* contamination: float = 0.02
DefaultContamination == Frac(1, 50)

----------------------------------------------------------------------------
(* Batches *)

Event(ts, user, device, ip, country, success) ==
    [ts |-> ts, user |-> user, device |-> device, ip |-> ip,
     country |-> country, success |-> success]

\* every batch of at most n events drawn from E, in every arrival order
BatchesOf(E, n) == UNION { [1..k -> E] : k \in 0..n }

\* score vectors of length n
ScoreVectors(n, S) == [1..n -> S]

\* a call of detect_anomalies on add_features' result, with a contamination
\* from C and the forest's scores drawn from S
DetectAnomaliesCall(C, S) ==
    /\ pc = "featured"
    /\ \E c \in C :
         \E scores \in ScoreVectors(Len(out), S) : DetectAnomalies(c, scores)

\* the state in which the pipeline is handed the batch
InitSession(batches) ==
    /\ df \in batches
    /\ out = <<>>
    /\ last_success = <<>>
    /\ secs_since_last_success = <<>>
    /\ pc = "start"
    /\ contamination = DefaultContamination
    /\ df_out = <<>>

\* no request in flight, no response sent
Idle == [status |-> 0]

InitLogin ==
    /\ log = <<>>
    /\ request = Idle
    /\ response = Idle

----------------------------------------------------------------------------
(* The success cursor: timestamps, users and outcomes vary *)

MaxBatchCursor == 3

CursorTimes == {0, 30, 60, 90}

CursorEvents ==
    { Event(t, u, "dev_0", 1, "DE", s) : t \in CursorTimes, u \in 1..2, s \in 0..1 }

InitCursor == InitSession(BatchesOf(CursorEvents, MaxBatchCursor)) /\ InitLogin

NextCursor ==
    \/ AddFeaturesBegin
    \/ IterRow
    \/ AddFeaturesEnd
    \/ DetectAnomaliesCall({DefaultContamination}, {1})

SpecCursor == InitCursor /\ [][NextCursor]_vars

\* add_features has returned
Featured == pc \in {"featured", "done", "raised"}

\* the successful events of df[j]'s user that the pass visited before row j
EarlierSuccesses(j) ==
    { k \in 1..(j - 1) : df[k].user = df[j].user /\ df[k].success = 1 }

Latest(K) == CHOOSE k \in K : \A m \in K : m <= k

\* the successful events of user u among the first n rows
VisitedSuccesses(u, n) == { k \in 1..n : df[k].user = u /\ df[k].success = 1 }

\* C10: in the single pass, each visited event's secs_since_last_success is 0
\* when no successful event of its user was visited before it, and otherwise
\* its timestamp minus that of the most recent earlier-visited successful
\* event of its user; the cursor holds, per user, exactly the timestamp of the
\* last visited successful event of that user (absent when there is none), so
\* it is moved only after the value is computed, only by successful events,
\* and only for the event's own user.
C10_CursorPass ==
    /\ \A j \in Indices(secs_since_last_success) :
          secs_since_last_success[j] =
              IF EarlierSuccesses(j) = {} THEN 0
              ELSE df[j].ts - df[Latest(EarlierSuccesses(j))].ts
    /\ LET n == Len(secs_since_last_success)
       IN  /\ DOMAIN last_success =
                  { df[k].user : k \in { m \in 1..n : df[m].success = 1 } }
           /\ \A u \in DOMAIN last_success :
                  last_success[u] = df[Latest(VisitedSuccesses(u, n))].ts

\* a pass that has seen a success, then a failure, then a third event of the
\* same user with an event of another user in the batch: the third event is
\* measured from the success, not from the failure
C10_Witness ==
    /\ pc = "loop"
    /\ Len(df) = 3
    /\ Len(secs_since_last_success) = 3
    /\ df[1].user = df[3].user /\ df[2].user = df[3].user
    /\ df[1].success = 1 /\ df[2].success = 0
    /\ df[1].ts < df[2].ts /\ df[2].ts < df[3].ts
    /\ secs_since_last_success[1] = 0
    /\ secs_since_last_success[3] = df[3].ts - df[1].ts

\* the events of out[j]'s user other than row j
SameUserOthers(j) == { k \in Indices(out) \ {j} : out[k].user = out[j].user }

\* rows i, j are successes of one user at times t1 < t2 with no other success
\* of that user at a time in [t1, t2]
ConsecutiveSuccesses(i, j) ==
    /\ out[i].user = out[j].user
    /\ out[i].success = 1 /\ out[j].success = 1
    /\ out[i].ts < out[j].ts
    /\ \A k \in SameUserOthers(j) \ {i} :
          out[k].success = 1 => (out[k].ts < out[i].ts \/ out[k].ts > out[j].ts)

\* C1: for a batch in any arrival order the feature follows global timestamp
\* order: each user's earliest event in time gets 0, and of two consecutive
\* successes of a user at t1 < t2 the later one gets t2 - t1.
C1_TimeOrder ==
    Featured =>
        \A j \in Indices(out) :
            /\ (\A k \in SameUserOthers(j) : out[k].ts > out[j].ts)
                  => out[j].secs_since_last_success = 0
            /\ \A i \in Indices(out) :
                  ConsecutiveSuccesses(i, j)
                      => out[j].secs_since_last_success = out[j].ts - out[i].ts

----------------------------------------------------------------------------
(* The minute windows: every input field varies *)

MaxBatchWindow == 2

WindowTimes == {0, 30, 60}

\* a usual device, address and country, and one deviation in each
WindowProfiles ==
    { <<"dev_0", 1, "DE">>, <<"dev_1", 1, "DE">>, <<"dev_0", 2, "DE">>,
      <<"dev_0", 1, "US">> }

WindowEvents ==
    { Event(t, u, p[1], p[2], p[3], s) :
        t \in WindowTimes, u \in 1..2, p \in WindowProfiles, s \in 0..1 }

InitWindow == InitSession(BatchesOf(WindowEvents, MaxBatchWindow)) /\ InitLogin

NextWindow ==
    \/ AddFeaturesBegin
    \/ IterRow
    \/ AddFeaturesEnd
    \/ DetectAnomaliesCall({DefaultContamination}, {1})

SpecWindow == InitWindow /\ [][NextWindow]_vars

\* the events of the batch in the (user, minute) window of event j
Window(j) ==
    { k \in Indices(df) :
        df[k].user = df[j].user /\ df[k].ts \div 60 = df[j].ts \div 60 }

Failures(K) == { k \in K : df[k].success = 0 }

\* C2: in the output of add_features every row carries the count, failure
\* fraction and distinct-value counts taken over all events of its (user,
\* minute) window in the batch, later ones included, so two rows of the same
\* window carry identical window aggregates.
C2_WindowAggregates ==
    Featured =>
        /\ Len(out) = Len(df)
        /\ \A j \in Indices(out) :
              /\ out[j].attempts = Cardinality(Window(j))
              /\ out[j].fail_ratio.num * Cardinality(Window(j))
                    = Cardinality(Failures(Window(j))) * out[j].fail_ratio.den
              /\ out[j].uniq_ips = Cardinality({ df[k].ip : k \in Window(j) })
              /\ out[j].uniq_devices = Cardinality({ df[k].device : k \in Window(j) })
              /\ out[j].uniq_countries = Cardinality({ df[k].country : k \in Window(j) })
              /\ \A i \in Window(j) :
                    /\ out[i].attempts = out[j].attempts
                    /\ out[i].fail_ratio = out[j].fail_ratio
                    /\ out[i].uniq_ips = out[j].uniq_ips
                    /\ out[i].uniq_devices = out[j].uniq_devices
                    /\ out[i].uniq_countries = out[j].uniq_countries

\* the first row's aggregates count a later event of its window, at another
\* second of the same minute and from another address
C2_Witness ==
    /\ Featured
    /\ Len(df) = 2
    /\ df[1].user = df[2].user
    /\ df[1].ts = 0 /\ df[2].ts = 30
    /\ df[1].success = 1 /\ df[2].success = 0
    /\ out[1].attempts = 2
    /\ out[1].fail_ratio = Frac(1, 2)
    /\ out[1].uniq_ips = 2
    /\ out[1].uniq_devices = 1

InputCols == {"ts", "user", "device", "ip", "country", "success"}

\* result has one row per event of batch, the i-th carrying the i-th event's
\* six input fields
RowsKept(batch, result) ==
    /\ Len(result) = Len(batch)
    /\ \A k \in Indices(batch) :
          \A c \in InputCols : result[k][c] = batch[k][c]

\* C9: add_features returns exactly one row per event, the i-th row being the
\* i-th event with its six input fields unchanged (no row dropped, duplicated
\* or moved by the joins), and the caller's batch is never modified.
C9_RowsKept ==
    [][ /\ df' = df
        /\ \A k \in Indices(df') : DOMAIN df'[k] = InputCols
        /\ pc' \in {"featured", "done", "raised"} => RowsKept(df', out') ]_vars

\* a returned frame for two events of one user in different minutes, the
\* later one arriving first
C9_Witness ==
    /\ pc = "featured"
    /\ Len(df) = 2
    /\ df[1].user = df[2].user
    /\ df[1].ts = 60 /\ df[2].ts = 0
    /\ out[1].ts = 60 /\ out[2].ts = 0
    /\ out[1].attempts = 1

----------------------------------------------------------------------------
(* The rarity counts: users, countries, devices and minutes vary *)

MaxBatchRare == 3

RareEvents ==
    { Event(t, u, d, 1, c, 1) :
        t \in {0, 60}, u \in 1..2, d \in {"dev_0", "dev_1"}, c \in {"DE", "US"} }

InitRare == InitSession(BatchesOf(RareEvents, MaxBatchRare)) /\ InitLogin

NextRare ==
    \/ AddFeaturesBegin
    \/ IterRow
    \/ AddFeaturesEnd
    \/ DetectAnomaliesCall({DefaultContamination}, {1})

SpecRare == InitRare /\ [][NextRare]_vars

\* the events of the whole batch with event j's user and the same value of col
SameUserAnd(j, col) ==
    { k \in Indices(df) : df[k].user = df[j].user /\ df[k][col] = df[j][col] }

\* C6: rare_country_for_user is 1 on a row iff fewer than 3 rows of the
\* entire batch have its (user, country), and rare_device_for_user is 1 iff
\* fewer than 3 rows of the entire batch have its (user, device); the counts
\* run over the whole batch, not over the row's minute window.
C6_RarityFlags ==
    Featured =>
        /\ Len(out) = Len(df)
        /\ \A j \in Indices(out) :
              /\ out[j].rare_country_for_user \in {0, 1}
              /\ out[j].rare_device_for_user \in {0, 1}
              /\ out[j].rare_country_for_user = 1
                    <=> Cardinality(SameUserAnd(j, "country")) < 3
              /\ out[j].rare_device_for_user = 1
                    <=> Cardinality(SameUserAnd(j, "device")) < 3

\* one user seen three times from one country, spread over two minutes and
\* two devices: the country is not rare although the row's window holds one
\* event, and the device seen twice is rare
C6_Witness ==
    /\ Featured
    /\ Len(df) = 3
    /\ \A k \in 1..3 : df[k].user = 1 /\ df[k].country = "DE"
    /\ df[1].ts = 0 /\ df[2].ts = 60 /\ df[3].ts = 60
    /\ df[1].device = "dev_1" /\ df[2].device = "dev_0" /\ df[3].device = "dev_0"
    /\ out[1].attempts = 1
    /\ out[1].rare_country_for_user = 0
    /\ out[2].rare_device_for_user = 1

----------------------------------------------------------------------------
(* The rule: a burst from many addresses *)

MaxBatchRule == 6

\* an event of the burst in minute 0, failed or successful, from the first
\* address or from an address of its own; or a failed event a minute later
\* from the first address
RuleChoices ==
    { [ts |-> 0, success |-> s, fresh |-> f] : s \in 0..1, f \in BOOLEAN }
        \cup { [ts |-> 60, success |-> 0, fresh |-> FALSE] }

\* addresses matter only through how many distinct ones a window holds
AddressOf(choice, k) == IF choice.fresh THEN k ELSE 1

RuleBatches ==
    { [k \in DOMAIN ch |->
          Event(ch[k].ts, 1, "dev_0", AddressOf(ch[k], k), "DE", ch[k].success)] :
        ch \in BatchesOf(RuleChoices, MaxBatchRule) }

InitRule == InitSession(RuleBatches) /\ InitLogin

NextRule ==
    \/ AddFeaturesBegin
    \/ IterRow
    \/ AddFeaturesEnd
    \/ DetectAnomaliesCall({DefaultContamination}, {1})

SpecRule == InitRule /\ [][NextRule]_vars

\* event j's window has more than 80% failures from at least 5 addresses
BurstWindow(j) ==
    /\ 5 * Cardinality(Failures(Window(j))) > 4 * Cardinality(Window(j))
    /\ Cardinality({ df[k].ip : k \in Window(j) }) >= 5

\* C4: every row of the output of detect_anomalies has rule_flag = 1 iff its
\* (user, minute) window has fail_ratio > 0.8 and uniq_ips >= 5, else 0; so
\* every event of such a window, successful ones included, is flagged.
C4_RuleFlag ==
    pc = "done" =>
        /\ Len(df_out) = Len(df)
        /\ \A j \in Indices(df_out) :
              df_out[j].rule_flag = IF BurstWindow(j) THEN 1 ELSE 0

\* five failures from five addresses and one success in minute 0: all six
\* rows are flagged, the successful one included
C4_Witness ==
    /\ pc = "done"
    /\ \E j \in Indices(df) :
          /\ df[j].success = 1
          /\ Cardinality(Window(j)) = 6
          /\ df_out[j].fail_ratio = Frac(5, 6)
          /\ df_out[j].uniq_ips = 5
          /\ \A i \in Window(j) : df_out[i].rule_flag = 1

----------------------------------------------------------------------------
(* Thresholding: contaminations and score vectors vary *)

MaxBatchDetect == 5

NumScores == 5

\* a burst of one user's failed logins within one minute, each from an
\* address of its own, possibly ended by a successful login
DetectOutcomes ==
    { [k \in 1..n |-> IF k = n THEN last ELSE 0] :
        n \in 0..MaxBatchDetect, last \in 0..1 }

DetectBatches ==
    { [k \in DOMAIN ss |-> Event(0, 1, "dev_0", k, "DE", ss[k])] :
        ss \in DetectOutcomes }

\* the default, values inside (0, 0.5], inside (0.5, 1), and outside (0, 1)
Contaminations ==
    { DefaultContamination, Frac(1, 4), Frac(1, 2), Frac(3, 4),
      Frac(0, 1), Frac(1, 1), Frac(-1, 4), Frac(5, 4) }

InitDetect == InitSession(DetectBatches) /\ InitLogin

NextDetect ==
    \/ AddFeaturesBegin
    \/ IterRow
    \/ AddFeaturesEnd
    \/ DetectAnomaliesCall(Contaminations, 1..NumScores)

SpecDetect == InitDetect /\ [][NextDetect]_vars

\* the k-th smallest score of the output, k counted from 0
OrderStat(k) ==
    CHOOSE v \in { df_out[i].anomaly_score : i \in Indices(df_out) } :
        /\ Cardinality({ i \in Indices(df_out) : df_out[i].anomaly_score < v }) <= k
        /\ Cardinality({ i \in Indices(df_out) : df_out[i].anomaly_score <= v }) > k

\* score >= T, T the (1 - contamination) quantile of the output's scores by
\* linear interpolation between order statistics; both sides scaled by the
\* contamination's denominator
AtOrAboveQuantile(score) ==
    LET n     == Len(df_out)
        h     == (contamination.den - contamination.num) * (n - 1)
        lo    == h \div contamination.den
        part  == h % contamination.den
    IN  IF part = 0
        THEN score >= OrderStat(lo)
        ELSE score * contamination.den >=
                 OrderStat(lo) * (contamination.den - part) + OrderStat(lo + 1) * part

\* C5: every row of the output of detect_anomalies has ml_flag = 1 iff its
\* anomaly_score >= T, T the (1 - contamination) quantile of all scores, and
\* final_flag = ml_flag OR rule_flag.
C5_Flags ==
    pc = "done" =>
        \A j \in Indices(df_out) :
            /\ df_out[j].ml_flag \in {0, 1}
            /\ df_out[j].final_flag \in {0, 1}
            /\ df_out[j].ml_flag = 1 <=> AtOrAboveQuantile(df_out[j].anomaly_score)
            /\ df_out[j].final_flag = 1
                  <=> (df_out[j].ml_flag = 1 \/ df_out[j].rule_flag = 1)

\* five failures from five addresses with a quarter of the scores to flag:
\* the threshold is the top score, a lower-scored row is flagged by the rule
\* alone and the top-scored row by the forest
C5_Witness ==
    /\ pc = "done"
    /\ Len(df_out) = 5
    /\ contamination = Frac(1, 4)
    /\ df_out[1].anomaly_score = 1 /\ df_out[1].ml_flag = 0
    /\ df_out[1].rule_flag = 1 /\ df_out[1].final_flag = 1
    /\ df_out[2].anomaly_score = 3 /\ df_out[2].ml_flag = 1
    /\ \A k \in 3..5 : df_out[k].anomaly_score < 3

DistinctScores ==
    \A i \in Indices(df_out) : \A j \in Indices(df_out) :
        i # j => df_out[i].anomaly_score # df_out[j].anomaly_score

MlFlagged == { j \in Indices(df_out) : df_out[j].ml_flag = 1 }

\* C8: when the N >= 1 scores are pairwise distinct, the number of rows with
\* ml_flag = 1 differs from contamination * N by less than 1.
C8_FlaggedCount ==
    (pc = "done" /\ DistinctScores) =>
        LET diff == Cardinality(MlFlagged) * contamination.den
                        - contamination.num * Len(df_out)
        IN  -contamination.den < diff /\ diff < contamination.den

\* four distinct scores at contamination 1/2: two rows flagged
C8_Witness ==
    /\ pc = "done"
    /\ DistinctScores
    /\ Len(df_out) = 4
    /\ contamination = Frac(1, 2)
    /\ Cardinality(MlFlagged) = 2

Rejected(c, n) == c.num <= 0 \/ 2 * c.num > c.den \/ n = 0

\* C7 as amended: detect_anomalies raises when contamination <= 0, when
\* contamination > 0.5, or when the batch has no rows, and runs for every
\* contamination in (0, 0.5] on a non-empty batch; a call that raises
\* produces no output rows, a call that runs flags every row.
C7_Rejection ==
    pc \in {"done", "raised"} =>
        /\ pc = "raised" <=> Rejected(contamination, Len(out))
        /\ pc = "raised" => df_out = <<>>
        /\ pc = "done" => Len(df_out) = Len(out) /\ Len(out) >= 1

\* a non-empty batch refused for its contamination of 3/4
C7_Witness ==
    /\ pc = "raised"
    /\ Len(out) = 2
    /\ contamination = Frac(3, 4)
    /\ df_out = <<>>

\* C7 as claimed: detect_anomalies raises when contamination <= 0, when
\* contamination >= 1, or when the batch has no rows, and runs for every
\* contamination strictly between 0 and 1 on a non-empty batch; a call that
\* raises produces no output rows.
C7_AsClaimed ==
    pc \in {"done", "raised"} =>
        /\ pc = "raised" <=>
              (contamination.num <= 0 \/ contamination.num >= contamination.den
                 \/ Len(out) = 0)
        /\ pc = "raised" => df_out = <<>>

----------------------------------------------------------------------------
(* login.py: POST /login *)

\* Text is a sequence of characters; " " stands for any whitespace
\* character.  A JSON value is tagged with its kind.
Text(t) == [kind |-> "str", text |-> t]

Null == [kind |-> "null"]

Bool(b) == [kind |-> "bool", truth |-> b]

Num(n) == [kind |-> "num", number |-> n]

\* dict.get(key, default)
Get(d, key, default) == IF key \in DOMAIN d THEN d[key] ELSE default

\* str(value) of a JSON string or null
Str(j) == IF j.kind = "str" THEN j.text ELSE <<"N", "o", "n", "e">>

\* bool(value)
Truthy(j) ==
    CASE j.kind = "null" -> FALSE
      [] j.kind = "bool" -> j.truth
      [] j.kind = "num"  -> j.number # 0
      [] j.kind = "str"  -> j.text # <<>>

RECURSIVE LStrip(_)
LStrip(s) == IF s # <<>> /\ Head(s) = " " THEN LStrip(Tail(s)) ELSE s

RECURSIVE RStrip(_)
RStrip(s) ==
    IF s # <<>> /\ s[Len(s)] = " " THEN RStrip(SubSeq(s, 1, Len(s) - 1)) ELSE s

\* variant: the value taken as sent
Strip_Nothing(s) == s

\* str.strip()
Strip(s) == RStrip(LStrip(s))

\* s.split(",")[0]
RECURSIVE FirstField(_)
FirstField(s) ==
    IF s = <<>> \/ Head(s) = "," THEN <<>> ELSE <<Head(s)>> \o FirstField(Tail(s))

Localhost == <<"1", "2", "7", ".", "0", ".", "0", ".", "1">>

\* lines 15-19; a missing header is None, and so is an unknown remote_addr,
\* written <<>> here
client_ip(req) ==
    LET fwd == Get(req.headers, "X-Forwarded-For", <<>>)
    IN  IF fwd # <<>> THEN Strip(FirstField(fwd))
        ELSE IF req.remote_addr # <<>> THEN req.remote_addr ELSE Localhost

MaxLog == 2

\* a POST /login arrives: Flask hands the request to login()
Receive(req) ==
    /\ request = Idle
    /\ request' = req
    /\ response' = Idle
    /\ UNCHANGED <<log, sessionVars>>

\* lines 22-46; `now` is the reading of datetime.utcnow()
login(now) ==
    /\ request # Idle
    /\ LET data    == request.json
           user    == Strip(Str(Get(data, "user", Text(<<>>))))
           device  == Strip(Str(Get(data, "device", Text(<<>>))))
           country == Strip(Str(Get(data, "country", Text(<<"D", "E">>))))
           success == IF Truthy(Get(data, "success", Num(1))) THEN 1 ELSE 0
           row     == [ts |-> now, user |-> user, device |-> device,
                       ip |-> client_ip(request), country |-> country,
                       success |-> success]
       IN  IF user = <<>> \/ device = <<>>
           THEN /\ response' = [status |-> 400, ok |-> FALSE]
                /\ log' = log
           ELSE /\ Len(log) < MaxLog
                /\ log' = Append(log, row)
                /\ response' = [status |-> 200, ok |-> TRUE, logged |-> row]
    /\ request' = Idle
    /\ UNCHANGED sessionVars

\* every dict over a subset of the keys, key k taking its values from vals[k]
Dicts(vals) ==
    UNION { { d \in [K -> UNION { vals[k] : k \in K }] :
                \A k \in K : d[k] \in vals[k] } : K \in SUBSET (DOMAIN vals) }

JsonBodies ==
    Dicts([user    |-> { Text(<<>>), Text(<<" ">>), Text(<<" ", "a", " ">>), Null },
           device  |-> { Text(<<" ", " ">>), Text(<<"d", " ">>) },
           country |-> { Text(<<" ", "U">>) },
           success |-> { Bool(FALSE), Num(2) }])

Headers ==
    Dicts([x \in {"X-Forwarded-For"} |-> { <<>>, <<" ", "b", ",", " ", "c">> }])

Requests ==
    { [status |-> 1, json |-> j, headers |-> h, remote_addr |-> <<"r">>] :
        j \in JsonBodies, h \in Headers }

\* readings of the clock, whole seconds
ClockReadings == {0}

InitLoginOnly == InitSession({<<>>}) /\ InitLogin

NextLogin ==
    \/ \E req \in Requests : Receive(req)
    \/ \E now \in ClockReadings : login(now)

SpecLogin == InitLoginOnly /\ [][NextLogin]_vars

\* the field is missing from the body, or is text of whitespace only
Blank(req, key) ==
    \/ key \notin DOMAIN req.json
    \/ /\ req.json[key].kind = "str"
       /\ \A k \in Indices(req.json[key].text) : req.json[key].text[k] = " "

====
